---------------------------- MODULE Spec2Model ----------------------------
(***************************************************************************)
(* The News API of src/app.py: five Flask routes over one PostgreSQL table *)
(* news(id, title, content).  Every handler opens its own psycopg2         *)
(* connection (get_db_connection, with its retry loop), runs its           *)
(* statements in that connection's transaction and closes the connection.  *)
(* The server runs threaded (app.run(threaded=True)), so handlers of       *)
(* different threads interleave at their database statements.              *)
(*                                                                         *)
(* The table is the committed state of the relational store.  A            *)
(* transaction runs at PostgreSQL's default isolation level (READ          *)
(* COMMITTED): a statement reads the rows committed when it starts, an     *)
(* UPDATE or DELETE of a row waits for the transaction that holds the      *)
(* row's lock and then acts on the row as last committed, the id sequence  *)
(* is advanced outside any transaction.                                    *)
(***************************************************************************)
EXTENDS Integers, Sequences, FiniteSets, TLC

\* ------------------------------------------------------------- bounds
MaxId == 2           \* ids the sequence may hand out; ids a request may name
MaxRequests == 3     \* requests received over a run of the threaded server
MaxSeqRequests == 5  \* requests received over a run that serves one request at a time

\* Two request-handling threads of the threaded server: every race of the
\* handlers is a race of two requests.
Threads == {1, 2}
Ids == 1..MaxId

\* ---------------------------------------------------------- constants
\* retries = 5 (get_db_connection)
Retries == 5

\* ------------------------------------------------------ request inputs
Keys == {"title", "content"}
\* The text a POST and a PUT send for a field: distinct, so a PUT changes a field.
PostText == "a"
PutText == "b"

\* The JSON objects over some of the keys, every field holding text v.
JsonObjects(v) == { [k \in K |-> v] : K \in SUBSET Keys }
EmptyObject == [k \in {} |-> ""]

\* request.json: None (hasBody = FALSE) or a JSON object.
NoBody == [hasBody |-> FALSE, json |-> EmptyObject]
Bodies(v) == { [hasBody |-> TRUE, json |-> o] : o \in JsonObjects(v) } \cup {NoBody}

Requests ==
    { [kind |-> "list", id |-> 0, body |-> NoBody],
      [kind |-> "health", id |-> 0, body |-> NoBody] }
    \cup { [kind |-> "create", id |-> 0, body |-> b] : b \in Bodies(PostText) }
    \cup { [kind |-> "update", id |-> i, body |-> b] : i \in Ids, b \in Bodies(PutText) }
    \cup { [kind |-> "delete", id |-> i, body |-> NoBody] : i \in Ids }

NoRequest == [kind |-> "none", id |-> 0, body |-> NoBody]

\* ------------------------------------------------------ python helpers
\* bool(request.json): None and the empty dict are both falsy.
Truthy(body) == body.hasBody /\ DOMAIN body.json # {}

\* dict.get(key, default)
Get(obj, key, default) == IF key \in DOMAIN obj THEN obj[key] ELSE default

\* ------------------------------------------------------------ the store
Row(t, c) == [title |-> t, content |-> c]
EmptyTable == [i \in {} |-> Row("", "")]

\* INSERT / UPDATE / DELETE applied to the committed table at commit.
NoWrite == [op |-> "none", id |-> 0, title |-> "", content |-> ""]
Write(op, i, t, c) == [op |-> op, id |-> i, title |-> t, content |-> c]

Apply(table, w) ==
    CASE w.op = "insert" -> [i \in DOMAIN table \cup {w.id} |->
                                IF i = w.id THEN Row(w.title, w.content) ELSE table[i]]
      [] w.op = "update" -> [i \in DOMAIN table |->
                                IF i = w.id THEN Row(w.title, w.content) ELSE table[i]]
      [] w.op = "delete" -> [i \in DOMAIN table \ {w.id} |-> table[i]]
      [] OTHER -> table

VARIABLES
    news,       \* the committed table: id -> row
    seq,        \* last value handed out by the id sequence of news.id
    tx,         \* per thread: the uncommitted write of its open transaction
    pc,         \* per thread: where its handler stands
    req,        \* per thread: the request it is serving
    conn,       \* per thread: whether its connection is open
    retries,    \* per thread: get_db_connection's local retries
    attempts,   \* per thread: psycopg2.connect calls made by this get_db_connection
    failures,   \* per thread: the calls among them that raised OperationalError
    item,       \* per thread: update_news's local item (cur.fetchone())
    resp,       \* per thread: the response returned
    issued,     \* requests received so far
    nCreated,   \* responses 201 of create_news so far
    nDeleted,   \* responses 200 of delete_news so far
    written     \* id -> the item of the last 201/200 response of create/update; dropped by a delete's 200

vars == <<news, seq, tx, pc, req, conn, retries, attempts, failures, item,
          resp, issued, nCreated, nDeleted, written>>


\* ------------------------------------------------------------ responses
NoResp == [status |-> 0, type |-> "none", body |-> [none |-> TRUE]]
\* return jsonify(body), status
JsonResp(status, body) == [status |-> status, type |-> "json", body |-> body]
\* abort(code) reaching Flask: the HTTP error page of that code
AbortResp(code) == [status |-> code, type |-> "abort", body |-> [code |-> code]]
\* an exception leaving the view function: Flask's 500 page, no JSON body
UnhandledResp(e) == [status |-> 500, type |-> "unhandled", body |-> [exception |-> e]]

Item(i, t, c) == [id |-> i, title |-> t, content |-> c]

\* --------------------------------------------------- get_db_connection
\* while retries > 0:
RetryLoopGuardOffByOne(r) == r >= 0
RetryLoopGuard(r) == r > 0

\* --------------------------------------------------------- list_news
RECURSIVE Ascending(_)
Ascending(S) ==
    IF S = {} THEN <<>>
    ELSE LET m == CHOOSE x \in S : \A y \in S : x <= y
         IN  <<m>> \o Ascending(S \ {m})

RECURSIVE Descending(_)
Descending(S) ==
    IF S = {} THEN <<>>
    ELSE LET m == CHOOSE x \in S : \A y \in S : x >= y
         IN  <<m>> \o Descending(S \ {m})

\* SELECT id, title, content FROM news ORDER BY id;  then the loop over rows
SelectAllDescending(table) ==
    LET ids == Descending(DOMAIN table)
    IN  [k \in 1..Len(ids) |-> Item(ids[k], table[ids[k]].title, table[ids[k]].content)]
SelectAll(table) ==
    LET ids == Ascending(DOMAIN table)
    IN  [k \in 1..Len(ids) |-> Item(ids[k], table[ids[k]].title, table[ids[k]].content)]

\* -------------------------------------------------------- create_news
\* the 400 test of create_news
CreateRejected(body) == ~Truthy(body) \/ "title" \notin DOMAIN body.json
\* content = request.json.get('content', "")
CreateContent(body) == Get(body.json, "content", "")

\* -------------------------------------------------------- update_news
\* the 400 test of update_news
UpdateRejected(body) == ~Truthy(body)
\* SELECT title, content FROM news WHERE id = %s;  cur.fetchone(): a row or None
SelectOne(table, i) ==
    IF i \in DOMAIN table THEN <<table[i].title, table[i].content>> ELSE <<>>
\* title = request.json.get('title', item[0])
NewTitleBlank(body, it) == Get(body.json, "title", "")
NewTitle(body, it) == Get(body.json, "title", it[1])
\* content = request.json.get('content', item[1])
NewContent(body, it) == Get(body.json, "content", it[2])

\* ------------------------------------------------------- transactions
\* The row i is not locked by an uncommitted UPDATE or DELETE of another thread.
RowFree(p, i) ==
    \A q \in Threads \ {p} : ~(tx[q].op \in {"update", "delete"} /\ tx[q].id = i)

\* conn.close()
NotClosed(p) == conn
Closed(p) == [conn EXCEPT ![p] = FALSE]

Init ==
    /\ news = EmptyTable
    /\ seq = 0
    /\ tx = [p \in Threads |-> NoWrite]
    /\ pc = [p \in Threads |-> "idle"]
    /\ req = [p \in Threads |-> NoRequest]
    /\ conn = [p \in Threads |-> FALSE]
    /\ retries = [p \in Threads |-> 0]
    /\ attempts = [p \in Threads |-> 0]
    /\ failures = [p \in Threads |-> 0]
    /\ item = [p \in Threads |-> <<>>]
    /\ resp = [p \in Threads |-> NoResp]
    /\ issued = 0
    /\ nCreated = 0
    /\ nDeleted = 0
    /\ written = EmptyTable


\* ---------------------------------------------------------- the handlers
\* Threads whose create_news has passed its 400 test and not yet run its INSERT.
PendingCreates ==
    { q \in Threads : req[q].kind = "create" /\ pc[q] \in {"connect", "returned", "insert"} }

\* A request arrives at an idle thread; the handler runs up to its call of
\* get_db_connection, or answers 400 from its test of request.json.
Start(p, r) ==
    /\ pc[p] = "idle"
    /\ issued' = issued + 1
    /\ req' = [req EXCEPT ![p] = r]
    /\ IF \/ r.kind = "create" /\ CreateRejected(r.body)
          \/ r.kind = "update" /\ UpdateRejected(r.body)
       THEN /\ pc' = [pc EXCEPT ![p] = "done"]
            /\ resp' = [resp EXCEPT ![p] = AbortResp(400)]
            /\ UNCHANGED retries
       ELSE /\ r.kind = "create" => seq + Cardinality(PendingCreates) < MaxId
            /\ pc' = [pc EXCEPT ![p] = "connect"]
            /\ retries' = [retries EXCEPT ![p] = Retries]
            /\ UNCHANGED resp
    /\ UNCHANGED <<news, seq, tx, conn, attempts, failures, item, nCreated, nDeleted, written>>

Receive(p) ==
    /\ issued < MaxRequests
    /\ \E r \in Requests : Start(p, r)

\* One pass of get_db_connection's loop: psycopg2.connect returns a connection
\* (return conn) or raises OperationalError (retries -= 1, sleep).
ConnectAttempt(p) ==
    /\ pc[p] = "connect"
    /\ RetryLoopGuard(retries[p])
    /\ attempts' = [attempts EXCEPT ![p] = @ + 1]
    /\ \E ok \in BOOLEAN :
         IF ok
         THEN /\ conn' = [conn EXCEPT ![p] = TRUE]
              /\ pc' = [pc EXCEPT ![p] = "returned"]
              /\ UNCHANGED <<retries, failures>>
         ELSE /\ retries' = [retries EXCEPT ![p] = @ - 1]
              /\ failures' = [failures EXCEPT ![p] = @ + 1]
              /\ UNCHANGED <<conn, pc>>
    /\ UNCHANGED <<news, seq, tx, req, item, resp, issued, nCreated, nDeleted, written>>

\* The loop ends with retries exhausted: return None.
ConnectGiveUp(p) ==
    /\ pc[p] = "connect"
    /\ ~RetryLoopGuard(retries[p])
    /\ pc' = [pc EXCEPT ![p] = "returned"]
    /\ UNCHANGED <<news, seq, tx, req, conn, retries, attempts, failures, item, resp,
                   issued, nCreated, nDeleted, written>>

FirstStatement(kind) ==
    CASE kind = "list" -> "list_query"
      [] kind = "create" -> "insert"
      [] kind = "update" -> "select"
      [] kind = "delete" -> "delete"
      [] OTHER -> "probe"

\* The handler's test of what get_db_connection returned: if conn is None.
AfterConnect(p) ==
    /\ pc[p] = "returned"
    /\ IF conn[p]
       THEN /\ pc' = [pc EXCEPT ![p] = FirstStatement(req[p].kind)]
            /\ UNCHANGED resp
       ELSE /\ pc' = [pc EXCEPT ![p] = "done"]
            /\ resp' = [resp EXCEPT ![p] =
                  IF req[p].kind = "health"
                  THEN JsonResp(500, [status |-> "error",
                                      message |-> "Database connection failed"])
                  ELSE JsonResp(500, [error |-> "Database connection failed"])]
    /\ retries' = [retries EXCEPT ![p] = 0]
    /\ attempts' = [attempts EXCEPT ![p] = 0]
    /\ failures' = [failures EXCEPT ![p] = 0]
    /\ UNCHANGED <<news, seq, tx, req, conn, item, issued, nCreated, nDeleted, written>>

\* db_health_check after a connection was returned: conn.close(), 200.
HealthProbe(p) ==
    /\ pc[p] = "probe"
    /\ conn' = Closed(p)
    /\ pc' = [pc EXCEPT ![p] = "done"]
    /\ resp' = [resp EXCEPT ![p] =
          JsonResp(200, [status |-> "ok", message |-> "Database connection successful"])]
    /\ UNCHANGED <<news, seq, tx, req, retries, attempts, failures, item, issued,
                   nCreated, nDeleted, written>>

\* The except/finally of create_news, update_news and delete_news for the
\* exception e: conn.rollback(), which may itself raise, then the 500 response;
\* conn.close() in finally either way.  The transaction's write is discarded.
Except(p, e) ==
    /\ \E rollbackOk \in BOOLEAN :
         resp' = [resp EXCEPT ![p] =
                    IF rollbackOk THEN JsonResp(500, [error |-> e])
                    ELSE UnhandledResp("InterfaceError")]
    /\ tx' = [tx EXCEPT ![p] = NoWrite]
    /\ conn' = Closed(p)
    /\ pc' = [pc EXCEPT ![p] = "done"]

\* list_news: the SELECT and the response, or the except branch (no rollback).
ListQuery(p) ==
    /\ pc[p] = "list_query"
    /\ \E ok \in BOOLEAN :
         resp' = [resp EXCEPT ![p] =
                    IF ok
                    THEN LET items == SelectAll(news)
                         IN  JsonResp(200, [count |-> Len(items), items |-> items])
                    ELSE JsonResp(500, [error |-> "DatabaseError"])]
    /\ conn' = Closed(p)
    /\ pc' = [pc EXCEPT ![p] = "done"]
    /\ UNCHANGED <<news, seq, tx, req, retries, attempts, failures, item, issued,
                   nCreated, nDeleted, written>>

\* create_news: INSERT ... RETURNING id.
Insert(p) ==
    /\ pc[p] = "insert"
    /\ \/ /\ seq' = seq + 1
          /\ tx' = [tx EXCEPT ![p] =
                Write("insert", seq + 1, req[p].body.json["title"], CreateContent(req[p].body))]
          /\ pc' = [pc EXCEPT ![p] = "ins_commit"]
          /\ UNCHANGED <<conn, resp>>
       \/ /\ Except(p, "DatabaseError")
          /\ UNCHANGED seq
    /\ UNCHANGED <<news, req, retries, attempts, failures, item, issued,
                   nCreated, nDeleted, written>>

\* create_news: conn.commit() and the 201 response.
InsertCommit(p) ==
    /\ pc[p] = "ins_commit"
    /\ \/ /\ news' = Apply(news, tx[p])
          /\ tx' = [tx EXCEPT ![p] = NoWrite]
          /\ conn' = Closed(p)
          /\ pc' = [pc EXCEPT ![p] = "done"]
          /\ resp' = [resp EXCEPT ![p] =
                JsonResp(201, Item(tx[p].id, tx[p].title, tx[p].content))]
          /\ nCreated' = nCreated + 1
          /\ written' = Apply(written, tx[p])
       \/ /\ Except(p, "DatabaseError")
          /\ UNCHANGED <<news, nCreated, written>>
    /\ UNCHANGED <<seq, req, retries, attempts, failures, item, issued, nDeleted>>

\* update_news: the SELECT; abort(404) when no row, raised inside the try.
Select(p) ==
    /\ pc[p] = "select"
    /\ \/ LET it == SelectOne(news, req[p].id)
          IN  IF it = <<>>
              THEN Except(p, "NotFound") /\ UNCHANGED item
              ELSE /\ item' = [item EXCEPT ![p] = it]
                   /\ pc' = [pc EXCEPT ![p] = "update"]
                   /\ UNCHANGED <<tx, conn, resp>>
       \/ Except(p, "DatabaseError") /\ UNCHANGED item
    /\ UNCHANGED <<news, seq, req, retries, attempts, failures, issued,
                   nCreated, nDeleted, written>>

\* update_news: the UPDATE, which waits for the row's lock and writes the row
\* if it is still there.
Update(p) ==
    /\ pc[p] = "update"
    /\ \/ /\ RowFree(p, req[p].id)
          /\ tx' = [tx EXCEPT ![p] =
                IF req[p].id \in DOMAIN news
                THEN Write("update", req[p].id, NewTitle(req[p].body, item[p]),
                           NewContent(req[p].body, item[p]))
                ELSE NoWrite]
          /\ pc' = [pc EXCEPT ![p] = "upd_commit"]
          /\ UNCHANGED <<conn, resp>>
       \/ Except(p, "DatabaseError")
    /\ UNCHANGED <<news, seq, req, retries, attempts, failures, item, issued,
                   nCreated, nDeleted, written>>

\* update_news: conn.commit() and the 200 response with updated_item.
UpdateCommit(p) ==
    /\ pc[p] = "upd_commit"
    /\ \/ LET updated_item == Item(req[p].id, NewTitle(req[p].body, item[p]),
                                   NewContent(req[p].body, item[p]))
          IN  /\ news' = Apply(news, tx[p])
              /\ tx' = [tx EXCEPT ![p] = NoWrite]
              /\ conn' = Closed(p)
              /\ pc' = [pc EXCEPT ![p] = "done"]
              /\ resp' = [resp EXCEPT ![p] = JsonResp(200, updated_item)]
              /\ written' = IF req[p].id \in DOMAIN written
                            THEN [written EXCEPT ![req[p].id] =
                                     Row(updated_item.title, updated_item.content)]
                            ELSE written
       \/ /\ Except(p, "DatabaseError")
          /\ UNCHANGED <<news, written>>
    /\ UNCHANGED <<seq, req, retries, attempts, failures, item, issued, nCreated, nDeleted>>

\* delete_news: DELETE ... RETURNING id; abort(404) when no row, raised inside the try.
Delete(p) ==
    /\ pc[p] = "delete"
    /\ \/ /\ RowFree(p, req[p].id)
          /\ IF req[p].id \in DOMAIN news
             THEN /\ tx' = [tx EXCEPT ![p] = Write("delete", req[p].id, "", "")]
                  /\ pc' = [pc EXCEPT ![p] = "del_commit"]
                  /\ UNCHANGED <<conn, resp>>
             ELSE Except(p, "NotFound")
       \/ Except(p, "DatabaseError")
    /\ UNCHANGED <<news, seq, req, retries, attempts, failures, item, issued,
                   nCreated, nDeleted, written>>

\* delete_news: conn.commit() and the 200 response.
DeleteCommit(p) ==
    /\ pc[p] = "del_commit"
    /\ \/ /\ news' = Apply(news, tx[p])
          /\ tx' = [tx EXCEPT ![p] = NoWrite]
          /\ conn' = Closed(p)
          /\ pc' = [pc EXCEPT ![p] = "done"]
          /\ resp' = [resp EXCEPT ![p] =
                JsonResp(200, [status |-> "deleted", id |-> req[p].id])]
          /\ nDeleted' = nDeleted + 1
          /\ written' = Apply(written, tx[p])
       \/ /\ Except(p, "DatabaseError")
          /\ UNCHANGED <<news, nDeleted, written>>
    /\ UNCHANGED <<seq, req, retries, attempts, failures, item, issued, nCreated>>

\* The response is sent; the thread is free for the next request.
Return(p) ==
    /\ pc[p] = "done"
    /\ pc' = [pc EXCEPT ![p] = "idle"]
    /\ req' = [req EXCEPT ![p] = NoRequest]
    /\ resp' = [resp EXCEPT ![p] = NoResp]
    /\ item' = [item EXCEPT ![p] = <<>>]
    /\ UNCHANGED <<news, seq, tx, conn, retries, attempts, failures, issued,
                   nCreated, nDeleted, written>>

Step(p) ==
    \/ ConnectAttempt(p)
    \/ ConnectGiveUp(p)
    \/ AfterConnect(p)
    \/ HealthProbe(p)
    \/ ListQuery(p)
    \/ Insert(p)
    \/ InsertCommit(p)
    \/ Select(p)
    \/ Update(p)
    \/ UpdateCommit(p)
    \/ Delete(p)
    \/ DeleteCommit(p)
    \/ Return(p)

\* The threaded server: requests are served in parallel.
Next == \E p \in Threads : Receive(p) \/ Step(p)

Spec == Init /\ [][Next]_vars

\* One request at a time: a request arrives only when no other is being served.
ReceiveAlone(p) ==
    /\ \A q \in Threads : pc[q] = "idle"
    /\ issued < MaxSeqRequests
    /\ \E r \in Requests : Start(p, r)

SeqNext == \E p \in Threads : ReceiveAlone(p) \/ Step(p)

SeqSpec == Init /\ [][SeqNext]_vars


\* ----------------------------------------------------------------- claims
\* The responses a backend fault inside the try of create/update/delete gives:
\* the handler's 500 JSON body, or the exception of a failed rollback.
FaultResponses ==
    { JsonResp(500, [error |-> "DatabaseError"]), UnhandledResp("InterfaceError") }

\* C1: PUT /news/{id} with a non-empty JSON body, on an id that is not stored and
\* with no backend fault, returns 404 and leaves the collection as it was.
C1_UpdateUnknownIdIs404 ==
    [][\A p \in Threads :
          (/\ pc[p] = "select"
           /\ req[p].id \notin DOMAIN news
           /\ Truthy(req[p].body)
           /\ pc'[p] = "done"
           /\ resp'[p] \notin FaultResponses)
          => (resp'[p].status = 404 /\ news' = news)]_vars

\* C2: DELETE /news/{id}, with no backend fault, returns 200 when the id is stored
\* (the first of two successive deletes) and 404 when the id is absent from the
\* collection (the second of them).
C2_DeleteTwice200Then404 ==
    [][\A p \in Threads :
          /\ (/\ pc[p] = "del_commit"
              /\ pc'[p] = "done"
              /\ resp'[p] \notin FaultResponses)
             => (resp'[p].status = 200 /\ req[p].id \notin DOMAIN news')
          /\ (/\ pc[p] = "delete"
              /\ req[p].id \notin DOMAIN news
              /\ pc'[p] = "done"
              /\ resp'[p] \notin FaultResponses)
             => resp'[p].status = 404]_vars

\* C3: PUT /news/{id} returns 400 only when the request has no JSON body; the
\* empty JSON object is accepted.
C3_Update400OnlyWithoutBody ==
    \A p \in Threads :
        (pc[p] = "done" /\ req[p].kind = "update" /\ resp[p].status = 400)
        => ~req[p].body.hasBody

\* C4: a successful PUT /news/{id}, served with no other request in progress,
\* leaves every field absent from its body at its previous stored value, keeps
\* the ids of the collection, and leaves every other item as it was.
C4_PartialUpdateFrame ==
    [][\A p \in Threads :
          (pc[p] = "upd_commit" /\ pc'[p] = "done" /\ resp'[p].status = 200)
          => LET i == req[p].id
                 body == req[p].body.json
             IN  /\ i \in DOMAIN news
                 /\ DOMAIN news' = DOMAIN news
                 /\ \A j \in DOMAIN news \ {i} : news'[j] = news[j]
                 /\ "title" \notin DOMAIN body => news'[i].title = news[i].title
                 /\ "content" \notin DOMAIN body => news'[i].content = news[i].content
                 /\ resp'[p].body.id = i]_vars

\* a PUT holding only content answered 200: the content is the new one, the
\* title still the one the POST stored
C4_Witness ==
    \E p \in Threads :
        /\ pc[p] = "done" /\ req[p].kind = "update" /\ resp[p].status = 200
        /\ DOMAIN req[p].body.json = {"content"}
        /\ req[p].id \in DOMAIN news
        /\ news[req[p].id] = Row(PostText, PutText)

\* C5: a handler that has returned holds no open connection, whatever its exit
\* path; with every request completed the number of open connections is zero.
OpenConnections == Cardinality({ p \in Threads : conn[p] })

C5_NoConnectionLeak ==
    /\ \A p \in Threads : pc[p] \in {"idle", "done"} => ~conn[p]
    /\ (\A p \in Threads : pc[p] \in {"idle", "done"}) => OpenConnections = 0

\* a handler left by the exception of a failed rollback, a second one by a
\* caught fault, and no connection open
C5_Witness ==
    \E p, q \in Threads :
        /\ pc[p] = "done" /\ resp[p] = UnhandledResp("InterfaceError")
        /\ pc[q] = "done" /\ resp[q].type = "json" /\ resp[q].status = 500
        /\ req[q].kind \in {"update", "delete"}
        /\ OpenConnections = 0

StorageRoutes == {"list", "create", "update", "delete"}

C7_FaultsCaughtAsJson500 ==
    \A p \in Threads :
        (pc[p] = "done" /\ req[p].kind \in StorageRoutes)
        => /\ resp[p].type # "unhandled"
           /\ resp[p].status = 500 =>
                (resp[p].type = "json" /\ DOMAIN resp[p].body = {"error"})

\* C8: GET /news returns count = N - M for the N creates and M deletes answered
\* with success so far, and exactly the surviving items, in ascending id order
\* with distinct ids, each with the title and content of its last successful
\* create or update.
C8_ListAfterCreatesAndDeletes ==
    \A p \in Threads :
        (pc[p] = "done" /\ req[p].kind = "list" /\ resp[p].status = 200)
        => LET items == resp[p].body.items
           IN  /\ resp[p].body.count = nCreated - nDeleted
               /\ Len(items) = resp[p].body.count
               /\ \A k \in 1..(Len(items) - 1) : items[k].id < items[k + 1].id
               /\ { items[k].id : k \in 1..Len(items) } = DOMAIN written
               /\ \A k \in 1..Len(items) :
                    written[items[k].id] = Row(items[k].title, items[k].content)

\* two creates, an update and a delete, then a list of the one survivor
C8_Witness ==
    \E p \in Threads :
        /\ pc[p] = "done" /\ req[p].kind = "list" /\ resp[p].status = 200
        /\ nCreated = 2 /\ nDeleted = 1
        /\ resp[p].body.count = 1
        /\ resp[p].body.items[1].title = PutText

\* C9: two PUTs on the same stored id, one holding only title and one holding
\* only content, both answered 200: the stored item holds the new title and the
\* new content.
C9_NoLostUpdate ==
    \A p, q \in Threads :
        (/\ p # q
         /\ pc[p] = "done" /\ req[p].kind = "update" /\ resp[p].status = 200
         /\ pc[q] = "done" /\ req[q].kind = "update" /\ resp[q].status = 200
         /\ req[p].id = req[q].id
         /\ DOMAIN req[p].body.json = {"title"}
         /\ DOMAIN req[q].body.json = {"content"}
         /\ req[p].id \in DOMAIN news)
        => /\ news[req[p].id].title = req[p].body.json["title"]
           /\ news[req[p].id].content = req[q].body.json["content"]

\* C10: when PUT /news/{id} commits and answers 200 with an item, the store
\* holds a row of that id with exactly that title and content.
C10_UpdateResponseIsStored ==
    [][\A p \in Threads :
          (pc[p] = "upd_commit" /\ pc'[p] = "done" /\ resp'[p].status = 200)
          => /\ req[p].id \in DOMAIN news'
             /\ news'[req[p].id] = Row(resp'[p].body.title, resp'[p].body.content)]_vars

=============================================================================
